---- MODULE Spec2Model ----
(***************************************************************************)
(* Model of the LLM orchestration core of the assignment-grading backend:  *)
(* GeminiService._call_gemini_core (retry/backoff wrapper around one       *)
(* remote generation call, with schema validation) and                     *)
(* GeminiService.evaluate_one_qa (three parallel calls, majority vote,     *)
(* temporary override of the shared model field).                          *)
(*                                                                         *)
(* Scores are in hundredths (100 = 1.0, 50 = 0.5).  Error messages are     *)
(* sequences of word tokens; substring tests are tests on tokens.          *)
(***************************************************************************)
EXTENDS Integers, Sequences, FiniteSets, TLC

\* ------------------------------------------------------------------ bounds
\* Number of requests the plain caller issues one after the other.
MaxRequests == 2

\* --------------------------------------------------------- program constants
MAX_LLM_RETRIES == 3

\* 1.0, in seconds
BACKOFF_BASE == 1

\* Python's None where an integer status code is expected
NoStatus == -1

\* Python's None for EvalDetail.partial_credit
NoCredit == -1

\* model_to_use in evaluate_one_qa
PinnedModel == "gemini-2.5-pro"

\* values the GEMINI_MODEL environment variable may give self.model
Models == {"gemini-2.5-pro", "gemini-2.0-flash"}

\* ------------------------------------------------------------- processes
\* One plain caller of _call_gemini_core (generate, PPT, Git evaluation ...)
\* and up to two evaluate_one_qa coroutines, each with three gathered calls.
PlainCall == <<"x", 0>>
EvalIds == {"A", "B"}
Slots == {1, 2, 3}
EvalCallsTwo(e) == {<<e, 1>>, <<e, 2>>}

\* gather(_single_eval_call(), _single_eval_call(), _single_eval_call())
EvalCalls(e) == {<<e, 1>>, <<e, 2>>, <<e, 3>>}
Calls == {PlainCall} \cup UNION {EvalCalls(e) : e \in EvalIds}
Owner(c) == c[1]

\* ------------------------------------------------------ remote behaviours
\* Exceptions the SDK call can raise: an optional status_code attribute and
\* the text of str(e).
MsgBad == <<"Bad", "Request">>
Msg503 == <<"503", "Service", "Unavailable">>
MsgTimeout == <<"Request", "Timeout">>
MsgMulti == <<"got", "500", "after", "429">>
MsgRate == <<"Rate", "Limit", "hit">>
Messages == {MsgBad, Msg503, MsgTimeout, MsgMulti}
Exceptions ==
    [status_code : {NoStatus, 400, 503}, msg : Messages]
    \cup { [status_code |-> NoStatus, msg |-> MsgRate] }

\* Exceptions used where several calls run side by side.
FewExceptions ==
    { [status_code |-> 503, msg |-> Msg503], [status_code |-> 400, msg |-> MsgBad] }

\* Raw texts the remote call can return.  kind "json" is a JSON object with
\* the two fields of EvalDetail that matter here; is_correct is "true",
\* "false" or "missing"; partial_credit is NoCredit for null/absent.
\* kind "empty" is the empty string; kind "absent" is response.text = None.
RawJson(ic, pc) == [kind |-> "json", is_correct |-> ic, partial_credit |-> pc]
RawEmpty == [kind |-> "empty", is_correct |-> "missing", partial_credit |-> NoCredit]
RawProse == [kind |-> "text", is_correct |-> "missing", partial_credit |-> NoCredit]
RawAbsent == [kind |-> "absent", is_correct |-> "missing", partial_credit |-> NoCredit]
RawTexts ==
    { RawJson(ic, pc) : ic \in {"true", "false", "missing"},
                        pc \in {NoCredit, 0, 25, 50, 100, 150} }
    \cup {RawEmpty, RawProse, RawAbsent}
\* no text: the remote call has not returned
NoText == [kind |-> "none", is_correct |-> "missing", partial_credit |-> NoCredit]

FewRawTexts ==
    { RawJson("true", NoCredit), RawJson("false", NoCredit), RawJson("false", 50),
      RawJson("false", 100), RawJson("false", 25), RawJson("missing", NoCredit) }

\* ------------------------------------------------- the retry settings
VARIABLES
    max_retries,       \* self.max_retries
    backoff_base       \* self.backoff_base

kvars == <<max_retries, backoff_base>>

\* __init__: self.max_retries = MAX_LLM_RETRIES; self.backoff_base = BACKOFF_BASE
Defaults ==
    /\ max_retries = MAX_LLM_RETRIES
    /\ backoff_base = BACKOFF_BASE

\* -------------------------------------------------------------- helpers
RECURSIVE SeqContains(_, _)
SeqContains(s, x) ==
    IF s = <<>> THEN FALSE
    ELSE IF Head(s) = x THEN TRUE ELSE SeqContains(Tail(s), x)

\* str.lower() on the tokens of the messages
Lower(tok) ==
    CASE tok = "Bad" -> "bad"
      [] tok = "Request" -> "request"
      [] tok = "Service" -> "service"
      [] tok = "Unavailable" -> "unavailable"
      [] tok = "Timeout" -> "timeout"
      [] tok = "Rate" -> "rate"
      [] tok = "Limit" -> "limit"
      [] OTHER -> tok

LowerMsg(msg) == [i \in 1..Len(msg) |-> Lower(msg[i])]

\* `phrase in text` for token sequences
ContainsPhrase(text, phrase) ==
    \E i \in 1..Len(text) :
        /\ i + Len(phrase) - 1 <= Len(text)
        /\ SubSeq(text, i, i + Len(phrase) - 1) = phrase

\* str(code)
CodeStr(code) ==
    CASE code = 429 -> "429"
      [] code = 500 -> "500"
      [] code = 502 -> "502"
      [] code = 503 -> "503"
      [] code = 504 -> "504"
      [] OTHER -> "other"

ScanOrder == <<429, 500, 502, 503, 504>>

\* for code in [429, 500, 502, 503, 504]: if str(code) in msg: ...; break
RECURSIVE ScanFrom(_, _)
ScanFrom(codes, msg) ==
    IF codes = <<>> THEN NoStatus
    ELSE IF SeqContains(msg, CodeStr(Head(codes))) THEN Head(codes)
    ELSE ScanFrom(Tail(codes), msg)

StatusOfMessageFirst(exc) ==
    IF ScanFrom(ScanOrder, exc.msg) # NoStatus THEN ScanFrom(ScanOrder, exc.msg)
    ELSE exc.status_code

\* last_status_code after the except clause has looked at the exception
StatusOf(exc) ==
    IF exc.status_code # NoStatus THEN exc.status_code
    ELSE ScanFrom(ScanOrder, exc.msg)

NewStatusSticky(prev, exc) ==
    IF StatusOf(exc) # NoStatus THEN StatusOf(exc) ELSE prev

\* last_status_code = getattr(e, 'status_code', None), then the scan: the
\* value of the attempt before (prev) is overwritten
NewStatus(prev, exc) == StatusOf(exc)

retryable_codes == {429, 500, 502, 503, 504}
retry_strings ==
    { <<"overloaded">>, <<"timeout">>, <<"deadline">>, <<"connection">>,
      <<"rate", "limit">>, <<"busy">> }

IsRetryableAlways(code, msg) == TRUE

IsRetryableByCode(code, msg) == code \in {429, 500, 502, 503, 504}

IsRetryable(code, msg) ==
    \/ code \in retryable_codes
    \/ \E s \in retry_strings : ContainsPhrase(LowerMsg(msg), s)

CanRetryAlways(retryable, attempt) == retryable

CanRetryInclusive(retryable, attempt) == retryable /\ attempt <= max_retries

\* if is_retryable and attempt < self.max_retries
CanRetry(retryable, attempt) == retryable /\ attempt < max_retries

DelayLinear(attempt) == attempt + 1

\* delay = 2 ** attempt
Delay(attempt) == 2 ^ attempt

\* _get_client: the client after the lazy creation (TRUE = a client object)
GetClient(cl, env) == IF cl THEN TRUE ELSE env

ProceedsAlways(cl) == TRUE

\* `if not client: return {... CONFIG_ERROR ...}`: the call goes on
Proceeds(cl) == cl

\* ---------------------------------------------------------------- outcomes
NoResult == [pending |-> TRUE]

ConfigError ==
    [success |-> FALSE,
     error |-> [type |-> "CONFIG_ERROR", message |-> "Gemini API key is missing",
                status_code |-> NoStatus, raw |-> <<"Client not initialized">>]]

ParseErrorWithText(diag) ==
    [success |-> FALSE, response |-> diag,
     error |-> [type |-> "PARSE_ERROR", message |-> "Failed to parse structured output",
                status_code |-> 200, raw |-> diag]]

ParseError(diag) ==
    [success |-> FALSE,
     error |-> [type |-> "PARSE_ERROR", message |-> "Failed to parse structured output",
                status_code |-> 200, raw |-> diag]]

UnavailableRaised(code, msg) == [raised |-> msg]

Unavailable(code, msg) ==
    [success |-> FALSE,
     error |-> [type |-> "LLM_UNAVAILABLE",
                message |-> "LLM service unavailable after retries",
                status_code |-> code, raw |-> msg]]

Exceeded(code, msg) ==
    [success |-> FALSE,
     error |-> [type |-> "LLM_UNAVAILABLE",
                message |-> "LLM service exceeded maximum retry attempts.",
                status_code |-> code, raw |-> msg]]

Success(resp) == [success |-> TRUE, response |-> resp]

ValidateAnything(raw) == TRUE

\* response_schema.model_validate_json(raw_text) for EvalDetail: does it accept?
Validate(raw) ==
    /\ raw.kind = "json"
    /\ raw.is_correct \in {"true", "false"}
    /\ \/ raw.partial_credit = NoCredit
       \/ (raw.partial_credit >= 0 /\ raw.partial_credit <= 100)

\* the validator's diagnostic, str(parse_err)
Diagnostic(raw) ==
    IF raw.kind # "json" THEN <<"Invalid", "JSON">>
    ELSE IF raw.is_correct = "missing" THEN <<"Field", "required">>
    ELSE <<"Input", "out", "of", "range">>

\* the EvalDetail object built from an accepted text; obj is the object's identity
Parsed(raw, c) ==
    [is_correct |-> (raw.is_correct = "true"),
     partial_credit |-> raw.partial_credit, obj |-> c]

TextOfAsIs(raw) == raw

\* raw_text = response.text or ""
TextOf(raw) == IF raw.kind = "absent" THEN RawEmpty ELSE raw

\* what the code returns for a raw text that came back from the remote call
OnResponse(raw, hasSchema, c) ==
    IF hasSchema
    THEN IF Validate(raw) THEN Success(Parsed(raw, c)) ELSE ParseError(Diagnostic(raw))
    ELSE Success(raw)

VARIABLES
    client,            \* self.client is not None
    envKey,            \* GEMINI_API_KEY is set in the environment
    defaultModel,      \* the model __init__ read from GEMINI_MODEL
    model,             \* self.model
    cpc,               \* position of each _call_gemini_core coroutine
    schema,            \* the call was given a response_schema
    attempt,           \* local attempt
    last_status_code,  \* local last_status_code
    last_error_msg,    \* local last_error_msg
    result,            \* the dict the call returned
    calls,             \* history: remote generation calls made by the call
    sleeps,            \* history: the delays of the call's backoff sleeps
    used,              \* history: the model each remote attempt was made with
    raised,            \* history: the exceptions the call's attempts raised
    returned,          \* history: the text of the response the remote call returned, if it did
    epc,               \* position of each evaluate_one_qa coroutine
    original_model,    \* local original_model of evaluate_one_qa
    eresult,           \* the dict evaluate_one_qa returned
    finished,          \* history: the slots of an evaluation's calls, in completion order
    nreq,              \* requests the plain caller has issued
    files,             \* GitEvaluator: the files handed to a prompt builder
    per_file_limit,    \* GIT_EVAL_PER_FILE_CHAR_LIMIT
    total_limit,       \* GIT_EVAL_TOTAL_CHAR_LIMIT
    prepared,          \* prepared_files of the builder that ran
    builder            \* which prompt builder ran: "none", "evaluation", "grading"

VARIABLES
    hpc,               \* position of the /github handler
    hkind,             \* which handler runs: "evaluate" or "grade"
    description,       \* request.description is not empty
    fetched,           \* history: how fetch_repository_files ended
    evaluation,        \* the dict the GitEvaluator returned
    response           \* the response the handler returned

hvars == <<hpc, hkind, description, fetched, evaluation, response>>

cvars == <<cpc, schema, attempt, last_status_code, last_error_msg, result,
           calls, sleeps, used, raised, returned>>
evars == <<epc, original_model, eresult, finished>>
pvars == <<files, per_file_limit, total_limit, prepared, builder>>
vars == <<client, envKey, defaultModel, model, cvars, evars, nreq, pvars, kvars, hvars>>


\* ------------------------------------------------------------------ Init
\* The state after GeminiService() was constructed: the client exists if the
\* key was set then; the environment may have changed since.  `issued` is
\* the number of requests the plain caller has already been through.
InitWith(evals, plain, issued) ==
    /\ client \in BOOLEAN
    /\ envKey \in BOOLEAN
    /\ defaultModel \in Models
    /\ model = defaultModel
    /\ cpc = [c \in Calls |-> IF plain /\ c = PlainCall THEN "idle" ELSE "off"]
    /\ schema = [c \in Calls |-> FALSE]
    /\ attempt = [c \in Calls |-> 0]
    /\ last_status_code = [c \in Calls |-> NoStatus]
    /\ last_error_msg = [c \in Calls |-> <<>>]
    /\ result = [c \in Calls |-> NoResult]
    /\ calls = [c \in Calls |-> 0]
    /\ sleeps = [c \in Calls |-> <<>>]
    /\ used = [c \in Calls |-> <<>>]
    /\ raised = [c \in Calls |-> <<>>]
    /\ returned = [c \in Calls |-> NoText]
    /\ epc = [e \in EvalIds |-> IF e \in evals THEN "idle" ELSE "off"]
    /\ original_model = [e \in EvalIds |-> defaultModel]
    /\ eresult = [e \in EvalIds |-> NoResult]
    /\ finished = [e \in EvalIds |-> <<>>]
    /\ nreq = issued

\* no /github handler is part of the run
NoHandler ==
    /\ hpc = "off"
    /\ hkind = "none"
    /\ description = FALSE
    /\ fetched = "pending"
    /\ evaluation = NoResult
    /\ response = NoResult

\* no prompt builder is part of the run
NoPrompt ==
    /\ files = <<>>
    /\ per_file_limit = 0
    /\ total_limit = 0
    /\ prepared = <<>>
    /\ builder = "none"

\* ------------------------------------------------- _call_gemini_core
\* A call returns its dict: a call gathered by an evaluation completes its
\* slot of the gather, after those that completed before it.
Completed(c) ==
    IF c = PlainCall THEN finished
    ELSE [finished EXCEPT ![Owner(c)] = Append(@, c[2])]

\* Entry of the coroutine up to its first await: _get_client, the
\* CONFIG_ERROR return, the locals, and the first run_in_executor.
Enter(c, hasSchema) ==
    /\ client' = GetClient(client, envKey)
    /\ schema' = [schema EXCEPT ![c] = hasSchema]
    /\ attempt' = [attempt EXCEPT ![c] = 0]
    /\ last_status_code' = [last_status_code EXCEPT ![c] = NoStatus]
    /\ last_error_msg' = [last_error_msg EXCEPT ![c] = <<>>]
    /\ calls' = [calls EXCEPT ![c] = 0]
    /\ sleeps' = [sleeps EXCEPT ![c] = <<>>]
    /\ used' = [used EXCEPT ![c] = <<>>]
    /\ raised' = [raised EXCEPT ![c] = <<>>]
    /\ returned' = [returned EXCEPT ![c] = NoText]
    /\ IF Proceeds(GetClient(client, envKey))
       THEN /\ cpc' = [cpc EXCEPT ![c] = "submitted"]
            /\ result' = [result EXCEPT ![c] = NoResult]
            /\ UNCHANGED finished
       ELSE /\ cpc' = [cpc EXCEPT ![c] = "done"]
            /\ result' = [result EXCEPT ![c] = ConfigError]
            /\ finished' = Completed(c)
    /\ UNCHANGED <<kvars, envKey, defaultModel, model, epc, original_model, eresult>>

\* a call of _call_gemini_core made by a caller other than a /github handler
Start(c, hasSchema) ==
    /\ Enter(c, hasSchema)
    /\ UNCHANGED <<pvars, hvars>>

\* A plain caller (generate, evaluate_ppt_structured, ...) awaits the core.
PlainStart(hasSchema) ==
    /\ cpc[PlainCall] \in {"idle", "done"}
    /\ nreq < MaxRequests
    /\ nreq' = nreq + 1
    /\ Start(PlainCall, hasSchema)

\* One of the three gathered _single_eval_call tasks starts; it passes EvalDetail.
EvalCallStart(c) ==
    /\ c # PlainCall
    /\ cpc[c] = "idle"
    /\ epc[Owner(c)] = "gather"
    /\ Start(c, TRUE)
    /\ UNCHANGED nreq

ThreadRunEager(c) ==
    /\ cpc[c] \in {"submitted", "sleeping"}
    /\ cpc' = [cpc EXCEPT ![c] = "inflight"]
    /\ used' = [used EXCEPT ![c] = Append(@, model)]
    /\ calls' = [calls EXCEPT ![c] = @ + 1]
    /\ UNCHANGED <<pvars, kvars, hvars, client, envKey, defaultModel, model, schema, attempt,
                   last_status_code, last_error_msg, result, sleeps, raised,
                   returned, evars, nreq>>

\* The executor thread runs the lambda: it reads self.model now and calls
\* client.models.generate_content.
ThreadRun(c) ==
    /\ cpc[c] = "submitted"
    /\ cpc' = [cpc EXCEPT ![c] = "inflight"]
    /\ used' = [used EXCEPT ![c] = Append(@, model)]
    /\ calls' = [calls EXCEPT ![c] = @ + 1]
    /\ UNCHANGED <<pvars, kvars, hvars, client, envKey, defaultModel, model, schema, attempt,
                   last_status_code, last_error_msg, result, sleeps, raised,
                   returned, evars, nreq>>

\* The remote call returned a text: validation and the success/PARSE_ERROR return.
RemoteReturns(c, texts) ==
    /\ cpc[c] = "inflight"
    /\ \E raw \in texts :
          /\ result' = [result EXCEPT ![c] = OnResponse(TextOf(raw), schema[c], c)]
          /\ returned' = [returned EXCEPT ![c] = raw]
    /\ cpc' = [cpc EXCEPT ![c] = "done"]
    /\ finished' = Completed(c)
    /\ UNCHANGED <<pvars, kvars, hvars, client, envKey, defaultModel, model, schema, attempt,
                   last_status_code, last_error_msg, calls, sleeps, used, raised,
                   epc, original_model, eresult, nreq>>

\* The remote call raised: the except clause, up to the sleep or the final return.
RemoteRaises(c, excs) ==
    /\ cpc[c] = "inflight"
    /\ \E exc \in excs :
          LET code == NewStatus(last_status_code[c], exc)
              retry == CanRetry(IsRetryable(code, exc.msg), attempt[c])
          IN  /\ last_error_msg' = [last_error_msg EXCEPT ![c] = exc.msg]
              /\ last_status_code' = [last_status_code EXCEPT ![c] = code]
              /\ raised' = [raised EXCEPT ![c] = Append(@, exc)]
              /\ IF retry
                 THEN /\ sleeps' = [sleeps EXCEPT ![c] = Append(@, Delay(attempt[c]))]
                      /\ cpc' = [cpc EXCEPT ![c] = "sleeping"]
                      /\ UNCHANGED <<result, finished>>
                 ELSE /\ result' = [result EXCEPT ![c] = Unavailable(code, exc.msg)]
                      /\ cpc' = [cpc EXCEPT ![c] = "done"]
                      /\ finished' = Completed(c)
                      /\ UNCHANGED sleeps
    /\ UNCHANGED <<pvars, kvars, hvars, client, envKey, defaultModel, model, schema, attempt,
                   calls, used, returned, epc, original_model, eresult, nreq>>

\* asyncio.sleep(delay) is over: attempt += 1; continue; the loop test; the
\* next run_in_executor, or the return after the loop.
WakeUp(c) ==
    /\ cpc[c] = "sleeping"
    /\ attempt' = [attempt EXCEPT ![c] = @ + 1]
    /\ IF attempt[c] + 1 <= max_retries
       THEN /\ cpc' = [cpc EXCEPT ![c] = "submitted"]
            /\ UNCHANGED <<result, finished>>
       ELSE /\ cpc' = [cpc EXCEPT ![c] = "done"]
            /\ result' = [result EXCEPT ![c] =
                             Exceeded(last_status_code[c], last_error_msg[c])]
            /\ finished' = Completed(c)
    /\ UNCHANGED <<pvars, kvars, hvars, client, envKey, defaultModel, model, schema,
                   last_status_code, last_error_msg, calls, sleeps, used, raised,
                   returned, epc, original_model, eresult, nreq>>

\* ------------------------------------------------- a single plain caller
Init == InitWith({}, TRUE, 0) /\ NoPrompt /\ Defaults /\ NoHandler

Next ==
    \/ \E hs \in BOOLEAN : PlainStart(hs)
    \/ ThreadRun(PlainCall)
    \/ RemoteReturns(PlainCall, RawTexts)
    \/ RemoteRaises(PlainCall, Exceptions)
    \/ WakeUp(PlainCall)

Spec == Init /\ [][Next]_vars


\* ------------------------------------------------------ evaluate_one_qa
ResultsAsCompleted(e) == [i \in 1..3 |-> result[<<e, finished[e][i]>>]]

\* results of asyncio.gather: the three calls' dicts in invocation order
Results(e) == [i \in 1..3 |-> result[<<e, i>>]]

\* [r["response"] for r in results if r["success"] and "response" in r]
IsValid(r) == r.success /\ "response" \in DOMAIN r

ValidResponses(results) ==
    LET ok == SelectSeq(results, IsValid)
    IN  [i \in 1..Len(ok) |-> ok[i].response]

\* the score computed in the voting loop
VoteOf(resp) ==
    IF resp.is_correct THEN 100
    ELSE IF resp.partial_credit # NoCredit THEN resp.partial_credit
    ELSE 0

MatchScoreFlagOnly(resp) == IF resp.is_correct THEN 100 ELSE 0

\* the score s recomputed in the selection loop
MatchScore(resp) ==
    IF resp.is_correct THEN 100
    ELSE (IF resp.partial_credit # NoCredit THEN resp.partial_credit ELSE 0)

Votes(valid) == [i \in 1..Len(valid) |-> VoteOf(valid[i])]

\* Counter(votes)[v]
CountOf(votes, v) == Cardinality({i \in 1..Len(votes) : votes[i] = v})

MostCommonLast(votes) ==
    LET best == {i \in 1..Len(votes) :
                    \A j \in 1..Len(votes) : CountOf(votes, votes[j]) <= CountOf(votes, votes[i])}
    IN  votes[CHOOSE i \in best : \A j \in best : j <= i]

\* vote_counts.most_common(1)[0][0]: max() over the counter's items in
\* insertion order, which keeps the first of the keys with the highest count
MostCommon(votes) ==
    LET best == {i \in 1..Len(votes) :
                    \A j \in 1..Len(votes) : CountOf(votes, votes[j]) <= CountOf(votes, votes[i])}
    IN  votes[CHOOSE i \in best : \A j \in best : i <= j]

PickLast(valid, winner_score) ==
    LET hits == {i \in 1..Len(valid) : MatchScore(valid[i]) = winner_score}
    IN  IF hits = {} THEN valid[1]
        ELSE valid[CHOOSE i \in hits : \A j \in hits : j <= i]

\* the selection loop with its fallback: the first response whose score is
\* the winner's, else valid_responses[0]
Pick(valid, winner_score) ==
    LET hits == {i \in 1..Len(valid) : MatchScore(valid[i]) = winner_score}
    IN  IF hits = {} THEN valid[1]
        ELSE valid[CHOOSE i \in hits : \A j \in hits : i <= j]

AllFailedLast(results) == results[3]

\* if not valid_responses: return results[0]
AllFailed(results) == results[1]

ConsensusFirstDecides(results) ==
    LET valid == ValidResponses(results)
    IN  IF ~IsValid(results[1]) THEN AllFailed(results)
        ELSE Success(Pick(valid, MostCommon(Votes(valid))))

\* the dict evaluate_one_qa returns for the gathered results
Consensus(results) ==
    LET valid == ValidResponses(results)
    IN  IF Len(valid) = 0 THEN AllFailed(results)
        ELSE Success(Pick(valid, MostCommon(Votes(valid))))

RestoredPinned(orig) == PinnedModel

\* finally: self.model = original_model
Restored(orig) == orig

\* evaluate_one_qa up to `await asyncio.gather(...)`: the override of
\* self.model and the creation of the three tasks.
EvalBegin(e) ==
    /\ epc[e] = "idle"
    /\ original_model' = [original_model EXCEPT ![e] = model]
    /\ model' = PinnedModel
    /\ epc' = [epc EXCEPT ![e] = "gather"]
    /\ cpc' = [c \in Calls |-> IF c \in EvalCalls(e) THEN "idle" ELSE cpc[c]]
    /\ finished' = [finished EXCEPT ![e] = <<>>]
    /\ UNCHANGED <<pvars, kvars, hvars, client, envKey, defaultModel, schema, attempt, last_status_code,
                   last_error_msg, result, calls, sleeps, used, raised, returned,
                   eresult, nreq>>

\* gather has all three results: the vote, the return, the finally clause.
EvalFinish(e) ==
    /\ epc[e] = "gather"
    /\ \A c \in EvalCalls(e) : cpc[c] = "done"
    /\ eresult' = [eresult EXCEPT ![e] = Consensus(Results(e))]
    /\ model' = Restored(original_model[e])
    /\ epc' = [epc EXCEPT ![e] = "done"]
    /\ UNCHANGED <<pvars, kvars, hvars, client, envKey, defaultModel, cvars, original_model,
                   finished, nreq>>

\* The task running evaluate_one_qa is cancelled while it awaits gather:
\* gather cancels the children that have not finished, CancelledError (a
\* BaseException, not caught by `except Exception`) propagates, and the
\* finally clause runs.
EvalCancel(e) ==
    /\ epc[e] = "gather"
    /\ \E c \in EvalCalls(e) : cpc[c] # "done"
    /\ cpc' = [c \in Calls |->
                  IF c \in EvalCalls(e) /\ cpc[c] # "done" THEN "cancelled" ELSE cpc[c]]
    /\ model' = Restored(original_model[e])
    /\ epc' = [epc EXCEPT ![e] = "raised"]
    /\ UNCHANGED <<pvars, kvars, hvars, client, envKey, defaultModel, schema, attempt, last_status_code,
                   last_error_msg, result, calls, sleeps, used, raised, returned,
                   original_model, eresult, finished, nreq>>

\* ------------------------------------- one consensus evaluation, alone
InitConsensus == InitWith({"A"}, FALSE, 0) /\ NoPrompt /\ Defaults /\ NoHandler

NextConsensus ==
    \/ EvalBegin("A")
    \/ \E c \in EvalCalls("A") : EvalCallStart(c)
    \/ \E c \in EvalCalls("A") : ThreadRun(c)
    \/ \E c \in EvalCalls("A") : RemoteReturns(c, FewRawTexts)
    \/ \E c \in EvalCalls("A") : RemoteRaises(c, FewExceptions)
    \/ \E c \in EvalCalls("A") : WakeUp(c)
    \/ EvalFinish("A")
    \/ EvalCancel("A")

SpecConsensus == InitConsensus /\ [][NextConsensus]_vars


\* ======================================================================
\* Properties of _call_gemini_core
\* ======================================================================
IsFailure(r, type) == "error" \in DOMAIN r /\ r.error.type = type

IsSuccess(r) == "response" \in DOMAIN r /\ r.success

\* the exception is one the except clause classifies as retryable
Retryable(exc) == IsRetryable(StatusOf(exc), exc.msg)

\* a text EvalDetail does not accept: not a JSON object, no is_correct, or a
\* partial_credit outside [0, 1]
SchemaViolating(raw) ==
    \/ raw.kind # "json"
    \/ raw.is_correct = "missing"
    \/ raw.partial_credit > 100

\* the lower-cased message holds one of the retry keywords
HasRetryKeyword(msg) ==
    \E i \in 1..Len(msg) :
        \/ Lower(msg[i]) \in {"overloaded", "timeout", "deadline", "connection", "busy"}
        \/ (i < Len(msg) /\ Lower(msg[i]) = "rate" /\ Lower(msg[i + 1]) = "limit")

\* <<2^0, 2^1, ..., 2^(k-1)>>
Backoffs(k) == [i \in 1..k |-> 2 ^ (i - 1)]

\* C1: a request issued while no credential is configured returns the
\* CONFIG_ERROR failure at once: it never reaches the remote call or a
\* backoff sleep, so it made 0 remote calls and 0 sleeps.
C1_NoCredentialNoNetwork ==
    \A c \in Calls :
        (~client /\ ~envKey /\ cpc[c] \notin {"off", "idle"}) =>
            /\ cpc[c] = "done"
            /\ result[c] = ConfigError
            /\ IsFailure(result[c], "CONFIG_ERROR")
            /\ calls[c] = 0
            /\ sleeps[c] = <<>>

C1_Witness ==
    /\ ~client /\ ~envKey
    /\ cpc[PlainCall] = "done"
    /\ IsFailure(result[PlainCall], "CONFIG_ERROR")
    /\ calls[PlainCall] = 0

\* C2: a request never makes more than MAX_RETRIES + 1 = 4 remote attempts
\* and never sleeps after its final attempt; when every attempt raised a
\* retryable error it made exactly 4 attempts, slept exactly 3 times and
\* returned LLM_UNAVAILABLE.
C2_AttemptBound ==
    \A c \in Calls :
        /\ calls[c] <= MAX_LLM_RETRIES + 1
        /\ Len(sleeps[c]) <= MAX_LLM_RETRIES
        /\ (cpc[c] = "done" /\ calls[c] > 0) => Len(sleeps[c]) = calls[c] - 1
        /\ ( /\ cpc[c] = "done"
             /\ calls[c] > 0
             /\ Len(raised[c]) = calls[c]
             /\ \A i \in 1..Len(raised[c]) : Retryable(raised[c][i]) )
           => /\ calls[c] = 4
              /\ Len(sleeps[c]) = 3
              /\ IsFailure(result[c], "LLM_UNAVAILABLE")

C2_Witness ==
    /\ cpc[PlainCall] = "done"
    /\ calls[PlainCall] = 4
    /\ Len(raised[PlainCall]) = 4
    /\ \A i \in 1..4 : Retryable(raised[PlainCall][i])
    /\ Len(sleeps[PlainCall]) = 3
    /\ IsFailure(result[PlainCall], "LLM_UNAVAILABLE")

\* C3: if the first k attempts (1 <= k <= 3) raised a retryable error and
\* attempt k+1 returned a text the call accepts, the call returns a success
\* and its backoff delays were exactly 2^0, ..., 2^(k-1) seconds.
C3_BackoffThenSuccess ==
    \A c \in Calls :
        ( /\ cpc[c] = "done"
          /\ returned[c] # NoText
          /\ (schema[c] => ~SchemaViolating(returned[c]))
          /\ Len(raised[c]) \in 1..3
          /\ \A i \in 1..Len(raised[c]) : Retryable(raised[c][i]) )
        => /\ IsSuccess(result[c])
           /\ calls[c] = Len(raised[c]) + 1
           /\ sleeps[c] = Backoffs(Len(raised[c]))

C3_Witness ==
    /\ cpc[PlainCall] = "done"
    /\ Len(raised[PlainCall]) = 3
    /\ raised[PlainCall][1].status_code = 503
    /\ IsSuccess(result[PlainCall])
    /\ sleeps[PlainCall] = <<1, 2, 4>>

\* C4 as stated: an exception whose status is non-retryable (400) on
\* attempt 1 ends the call with LLM_UNAVAILABLE after exactly 1 attempt and
\* no backoff sleep.
C4_Original ==
    \A c \in Calls :
        (Len(raised[c]) >= 1 /\ raised[c][1].status_code = 400) =>
            /\ cpc[c] = "done"
            /\ IsFailure(result[c], "LLM_UNAVAILABLE")
            /\ calls[c] = 1
            /\ sleeps[c] = <<>>

\* C4 (amended): an exception on attempt 1 that is not classified retryable
\* (its status is not a retryable one and its message holds no retry
\* keyword, e.g. 400 "Bad Request") ends the call with LLM_UNAVAILABLE
\* after exactly 1 attempt, with no backoff sleep.
C4_NonRetryableNoRetry ==
    \A c \in Calls :
        ( /\ Len(raised[c]) >= 1
          /\ StatusOf(raised[c][1]) \notin {429, 500, 502, 503, 504}
          /\ ~HasRetryKeyword(raised[c][1].msg) )
        => /\ cpc[c] = "done"
           /\ IsFailure(result[c], "LLM_UNAVAILABLE")
           /\ result[c].error.status_code = StatusOf(raised[c][1])
           /\ calls[c] = 1
           /\ sleeps[c] = <<>>

C4_Witness ==
    /\ cpc[PlainCall] = "done"
    /\ raised[PlainCall] = << [status_code |-> 400, msg |-> MsgBad] >>
    /\ IsFailure(result[PlainCall], "LLM_UNAVAILABLE")
    /\ calls[PlainCall] = 1

\* C5: a text that came back from the remote call but does not validate
\* against the schema ends the call with PARSE_ERROR and status code 200,
\* on whichever attempt it arrives, with no attempt and no sleep after it.
C5_ParseErrorNotRetried ==
    \A c \in Calls :
        (schema[c] /\ returned[c] # NoText /\ SchemaViolating(returned[c])) =>
            /\ cpc[c] = "done"
            /\ IsFailure(result[c], "PARSE_ERROR")
            /\ result[c].error.status_code = 200
            /\ calls[c] = Len(raised[c]) + 1
            /\ Len(sleeps[c]) = Len(raised[c])

C5_Witness ==
    /\ cpc[PlainCall] = "done"
    /\ schema[PlainCall]
    /\ Len(raised[PlainCall]) = 2
    /\ returned[PlainCall] = RawJson("true", 150)
    /\ IsFailure(result[PlainCall], "PARSE_ERROR")


\* ======================================================================
\* Properties of evaluate_one_qa
\* ======================================================================
\* the slots (invocation order) whose call returned a success
SuccSlots(e) == {i \in Slots : IsSuccess(result[<<e, i>>])}

\* 1.0 if correct, else the partial credit, else 0.0, of a slot's response
SlotVote(e, i) ==
    LET r == result[<<e, i>>].response
    IN  IF r.is_correct THEN 100
        ELSE IF r.partial_credit = NoCredit THEN 0 ELSE r.partial_credit

Buckets(e) == {SlotVote(e, i) : i \in SuccSlots(e)}

Tally(e, v) == Cardinality({i \in SuccSlots(e) : SlotVote(e, i) = v})

\* the buckets with the highest count
TopBuckets(e) == {v \in Buckets(e) : \A w \in Buckets(e) : Tally(e, w) <= Tally(e, v)}

\* the first slot, in invocation order, whose vote is v
FirstSlot(e, v) ==
    CHOOSE i \in SuccSlots(e) :
        /\ SlotVote(e, i) = v
        /\ \A j \in SuccSlots(e) : SlotVote(e, j) = v => i <= j

\* C6: when one bucket has the strictly highest count among the successful
\* calls, the returned response's vote is that bucket and the response is
\* the first successful response, in invocation order, with that vote.
C6_MajorityWins ==
    \A e \in EvalIds :
        epc[e] = "done" =>
            \A v \in Buckets(e) :
                TopBuckets(e) = {v} =>
                    /\ IsSuccess(eresult[e])
                    /\ MatchScore(eresult[e].response) = v
                    /\ eresult[e].response = result[<<e, FirstSlot(e, v)>>].response

C6_Witness ==
    /\ epc["A"] = "done"
    /\ SuccSlots("A") = {1, 2, 3}
    /\ SlotVote("A", 1) = 0
    /\ SlotVote("A", 2) = 100
    /\ SlotVote("A", 3) = 100
    /\ eresult["A"].response = result[<<"A", 2>>].response

\* C7: when several buckets tie for the highest count, the winner is the
\* tied bucket that appears first in invocation order, and the returned
\* response is the first response of that bucket; the result is thereby
\* fixed by the ordered list of the three outcomes.
C7_TieFirstAppearance ==
    \A e \in EvalIds :
        (epc[e] = "done" /\ Cardinality(TopBuckets(e)) > 1) =>
            LET first == CHOOSE i \in SuccSlots(e) :
                             /\ SlotVote(e, i) \in TopBuckets(e)
                             /\ \A j \in SuccSlots(e) :
                                    SlotVote(e, j) \in TopBuckets(e) => i <= j
            IN  /\ IsSuccess(eresult[e])
                /\ MatchScore(eresult[e].response) = SlotVote(e, first)
                /\ eresult[e].response = result[<<e, first>>].response

C7_Witness ==
    /\ epc["A"] = "done"
    /\ SuccSlots("A") = {1, 2, 3}
    /\ SlotVote("A", 1) = 100
    /\ SlotVote("A", 2) = 50
    /\ SlotVote("A", 3) = 0
    /\ eresult["A"].response = result[<<"A", 1>>].response

\* C8: if none of the three calls succeeded, the evaluation returns exactly
\* the dict of the first call (same type, message, status code and raw),
\* whatever the second and third failures are.
C8_AllFailedReturnsFirst ==
    \A e \in EvalIds :
        (epc[e] = "done" /\ SuccSlots(e) = {}) =>
            /\ eresult[e] = result[<<e, 1>>]
            /\ ~eresult[e].success
            /\ eresult[e].error \in
                  {result[<<e, i>>].error : i \in Slots}

C8_Witness ==
    /\ epc["A"] = "done"
    /\ IsFailure(result[<<"A", 1>>], "LLM_UNAVAILABLE")
    /\ IsFailure(result[<<"A", 2>>], "PARSE_ERROR")
    /\ IsFailure(result[<<"A", 3>>], "LLM_UNAVAILABLE")
    /\ result[<<"A", 3>>] # result[<<"A", 1>>]
    /\ eresult["A"] = result[<<"A", 1>>]

\* C9: after a single evaluation with nothing else running on the service,
\* self.model is what it was before the call, whether the evaluation
\* returned a winner, returned the first failure, or raised.
C9_ModelRestored ==
    \A e \in EvalIds :
        /\ epc[e] \in {"done", "raised"} => model = defaultModel
        /\ epc[e] = "raised" => eresult[e] = NoResult

C9_Witness ==
    /\ epc["A"] = "raised"
    /\ defaultModel # PinnedModel
    /\ \E c \in EvalCalls("A") : cpc[c] = "cancelled" /\ used[c] = <<PinnedModel>>
    /\ model = defaultModel


\* ------------------- a consensus evaluation and a plain caller, together
\* Both run on the one GeminiService the routers share.  The remote
\* behaviours are cut down to one text and one exception, the client exists
\* and the plain caller has one request left.
OneText == {RawJson("true", NoCredit)}
OneException == {[status_code |-> 503, msg |-> Msg503]}

InitShared ==
    /\ InitWith({"A"}, TRUE, MaxRequests - 1)
    /\ NoPrompt
    /\ Defaults
    /\ NoHandler
    /\ client
    /\ envKey

NextShared ==
    \/ \E hs \in BOOLEAN : PlainStart(hs)
    \/ EvalBegin("A")
    \/ \E c \in EvalCalls("A") : EvalCallStart(c)
    \/ \E c \in EvalCalls("A") \cup {PlainCall} : ThreadRun(c)
    \/ \E c \in EvalCalls("A") \cup {PlainCall} : RemoteReturns(c, OneText)
    \/ \E c \in EvalCalls("A") \cup {PlainCall} : RemoteRaises(c, OneException)
    \/ \E c \in EvalCalls("A") \cup {PlainCall} : WakeUp(c)
    \/ EvalFinish("A")

SpecShared == InitShared /\ [][NextShared]_vars

\* C10: a plain call that runs on the same service while a consensus
\* evaluation is in flight makes every one of its remote attempts with the
\* configured default model, never with the model the evaluation pinned.
C10_NoLeak ==
    \A i \in 1..Len(used[PlainCall]) : used[PlainCall][i] = defaultModel

\* --------------------------- two consensus evaluations that overlap
\* Two requests grade a question each on the shared GeminiService.  The
\* client exists, and every remote call returns the one text.
InitOverlap ==
    /\ InitWith({"A", "B"}, FALSE, 0)
    /\ NoPrompt
    /\ Defaults
    /\ NoHandler
    /\ client
    /\ envKey

NextOverlap ==
    \/ \E e \in EvalIds : EvalBegin(e)
    \/ \E c \in Calls : EvalCallStart(c)
    \/ \E c \in Calls : ThreadRun(c)
    \/ \E c \in Calls : RemoteReturns(c, OneText)
    \/ \E e \in EvalIds : EvalFinish(e)

SpecOverlap == InitOverlap /\ [][NextOverlap]_vars

\* C11: once all the evaluations that overlapped on the service have
\* completed, self.model is the configured default it held before the first
\* of them started.
C11_RestoredAfterOverlap ==
    (\A e \in EvalIds : epc[e] = "done") => model = defaultModel

\* 1.0 if correct, else the partial credit, else 0.0, of a response
ClaimVote(r) ==
    IF r.is_correct THEN 100
    ELSE IF r.partial_credit = NoCredit THEN 0 ELSE r.partial_credit

\* C12: whenever the evaluation returns a success, the vote of the returned
\* response is the winning vote of the tally, for 1, 2 or 3 successful
\* calls; the fallback to the first successful response is never taken.
C12_ChosenVoteIsWinner ==
    \A e \in EvalIds :
        (epc[e] = "done" /\ IsSuccess(eresult[e])) =>
            LET valid == ValidResponses(Results(e))
                winner == MostCommon(Votes(valid))
            IN  /\ SuccSlots(e) # {}
                /\ ClaimVote(eresult[e].response) \in TopBuckets(e)
                /\ ClaimVote(eresult[e].response) = winner
                /\ \E i \in 1..Len(valid) : MatchScore(valid[i]) = winner

C12_Witness ==
    /\ epc["A"] = "done"
    /\ SuccSlots("A") = {2, 3}
    /\ SlotVote("A", 2) = 50
    /\ SlotVote("A", 3) = 100
    /\ IsSuccess(eresult["A"])
    /\ ClaimVote(eresult["A"].response) = 50

\* C13: a success returned by the evaluation carries, next to the chosen
\* response, the full list of the votes of the successful calls.
C13_CarriesVotes ==
    \A e \in EvalIds :
        (epc[e] = "done" /\ IsSuccess(eresult[e])) =>
            /\ "votes" \in DOMAIN eresult[e]
            /\ eresult[e].votes = Votes(ValidResponses(Results(e)))

\* C14: every vote that enters the tally is one of the buckets 0.0, 0.5, 1.0,
\* for every response the schema validation accepts.
C14_VotesAreBuckets ==
    \A e \in EvalIds :
        (epc[e] = "done" /\ SuccSlots(e) # {}) =>
            LET votes == Votes(ValidResponses(Results(e)))
            IN  \A i \in 1..Len(votes) : votes[i] \in {0, 50, 100}

\* the dict is a success or a failure of one of the three kinds
Tagged(r) ==
    \/ IsSuccess(r)
    \/ IsFailure(r, "CONFIG_ERROR")
    \/ IsFailure(r, "PARSE_ERROR")
    \/ IsFailure(r, "LLM_UNAVAILABLE")

\* C15: every call and every evaluation ends in a tagged outcome: an
\* exception of the remote call or a text the schema rejects becomes a
\* failure dict, never a fault of the call, and the evaluation returns a
\* tagged dict also when all three calls failed; the only fault that leaves
\* an evaluation is the cancellation of its task.
C15_AlwaysTaggedOutcome ==
    /\ \A c \in Calls :
          /\ cpc[c] = "done" => Tagged(result[c])
          /\ (raised[c] # <<>> \/ returned[c] # NoText) =>
                \/ cpc[c] \in {"sleeping", "submitted", "inflight", "cancelled"}
                \/ (cpc[c] = "done" /\ Tagged(result[c]))
          /\ cpc[c] = "cancelled" => epc[Owner(c)] = "raised"
    /\ \A e \in EvalIds :
          /\ epc[e] = "done" => Tagged(eresult[e])
          /\ epc[e] = "raised" => \E c \in EvalCalls(e) : cpc[c] = "cancelled"

C15_Witness ==
    /\ epc["A"] = "done"
    /\ SuccSlots("A") = {}
    /\ raised[<<"A", 1>>] # <<>>
    /\ SchemaViolating(returned[<<"A", 2>>])
    /\ IsFailure(eresult["A"], "LLM_UNAVAILABLE")

\* C16: every dict a call returns has exactly one variant populated: a
\* success has a response and no error record; a failure has an error
\* record with type, message, status_code and raw, and no response.
C16_OneVariant ==
    \A c \in Calls :
        cpc[c] = "done" =>
            /\ "success" \in DOMAIN result[c]
            /\ result[c].success =>
                  DOMAIN result[c] = {"success", "response"}
            /\ ~result[c].success =>
                  /\ DOMAIN result[c] = {"success", "error"}
                  /\ DOMAIN result[c].error = {"type", "message", "status_code", "raw"}

C16_Witness ==
    /\ cpc[PlainCall] = "done"
    /\ nreq = 2
    /\ schema[PlainCall]
    /\ returned[PlainCall] = RawProse
    /\ ~result[PlainCall].success
    /\ DOMAIN result[PlainCall] = {"success", "error"}

\* the status the except clause works with: the exception's own status
\* field, else the first of 429, 500, 502, 503, 504 found in the message
ClaimStatus(exc) ==
    IF exc.status_code # NoStatus THEN exc.status_code
    ELSE IF \E i \in 1..Len(exc.msg) : exc.msg[i] = "429" THEN 429
    ELSE IF \E i \in 1..Len(exc.msg) : exc.msg[i] = "500" THEN 500
    ELSE IF \E i \in 1..Len(exc.msg) : exc.msg[i] = "502" THEN 502
    ELSE IF \E i \in 1..Len(exc.msg) : exc.msg[i] = "503" THEN 503
    ELSE IF \E i \in 1..Len(exc.msg) : exc.msg[i] = "504" THEN 504
    ELSE NoStatus

\* the classification of the claim
ClaimRetryable(exc) ==
    \/ ClaimStatus(exc) \in {429, 500, 502, 503, 504}
    \/ HasRetryKeyword(exc.msg)

\* C17: a failed attempt is retried (a backoff sleep follows it) if and
\* only if attempts remain and its status code is in {429, 500, 502, 503,
\* 504} or its lower-cased message holds a retry keyword; so a 400 whose
\* message says "timeout" is retried.
C17_RetriedIffClassified ==
    \A c \in Calls :
        /\ Len(sleeps[c]) <= Len(raised[c])
        /\ \A i \in 1..Len(raised[c]) :
              (i <= Len(sleeps[c])) <=>
                  (ClaimRetryable(raised[c][i]) /\ i <= MAX_LLM_RETRIES)
        /\ \A i \in 1..Len(raised[c]) :
              (~ClaimRetryable(raised[c][i]) \/ i > MAX_LLM_RETRIES) =>
                  /\ i = Len(raised[c])
                  /\ cpc[c] = "done"
                  /\ IsFailure(result[c], "LLM_UNAVAILABLE")

C17_Witness ==
    /\ Len(raised[PlainCall]) = 2
    /\ raised[PlainCall][1] = [status_code |-> 400, msg |-> MsgTimeout]
    /\ raised[PlainCall][2] = [status_code |-> 400, msg |-> Msg503]
    /\ sleeps[PlainCall] = <<1>>
    /\ cpc[PlainCall] = "done"

\* C18: the LLM_UNAVAILABLE failure that ends a call carries the status
\* code and the message of the last attempt only; a code seen on an earlier
\* attempt is not reported when the last error has none.
C18_LastAttemptOnly ==
    \A c \in Calls :
        (cpc[c] = "done" /\ IsFailure(result[c], "LLM_UNAVAILABLE")) =>
            /\ raised[c] # <<>>
            /\ result[c].error.status_code = ClaimStatus(raised[c][Len(raised[c])])
            /\ result[c].error.raw = raised[c][Len(raised[c])].msg

C18_Witness ==
    /\ cpc[PlainCall] = "done"
    /\ Len(raised[PlainCall]) = 2
    /\ raised[PlainCall][1] = [status_code |-> 503, msg |-> Msg503]
    /\ raised[PlainCall][2] = [status_code |-> NoStatus, msg |-> MsgBad]
    /\ result[PlainCall].error.status_code = NoStatus

\* ======================================================================
\* GitEvaluator: the prompt builders
\* ======================================================================
\* Contents are modelled by their length in characters; a file is
\* [path, size].  A prepared file is [path, size, marker]: size is the length
\* of the kept content and marker the number in "[TRUNCATED n chars]", 0 for
\* the empty note.
MaxFiles == 3
MaxSize == 3
MaxPerFile == 2
MaxTotal == 3

\* len(content[:per_file_limit])
Truncate(size, per) == IF size > per THEN per ELSE size

\* the number in truncated_note, 0 when the note is ""
TruncatedNote(size, per) == IF size > per THEN size - per ELSE 0

RECURSIVE EvalLoopSkip(_, _, _, _, _, _)
EvalLoopSkip(fs, i, acc, cur, per, total) ==
    IF i > Len(fs) THEN acc
    ELSE LET len == Truncate(fs[i].size, per)
         IN  IF cur + len > total
             THEN EvalLoopSkip(fs, i + 1, acc, cur, per, total)
             ELSE EvalLoopSkip(fs, i + 1,
                      Append(acc, [path |-> fs[i].path, size |-> len,
                                   marker |-> TruncatedNote(fs[i].size, per)]),
                      cur + len, per, total)

\* the loop of build_evaluation_prompt from file i on: acc is
\* prepared_files, cur is current_total
RECURSIVE EvalLoop(_, _, _, _, _, _)
EvalLoop(fs, i, acc, cur, per, total) ==
    IF i > Len(fs) THEN acc
    ELSE LET len == Truncate(fs[i].size, per)
         IN  IF cur + len > total
             THEN acc
             ELSE EvalLoop(fs, i + 1,
                      Append(acc, [path |-> fs[i].path, size |-> len,
                                   marker |-> TruncatedNote(fs[i].size, per)]),
                      cur + len, per, total)

\* the loop of build_grading_prompt: no note is built
RECURSIVE GradeLoop(_, _, _, _, _, _)
GradeLoop(fs, i, acc, cur, per, total) ==
    IF i > Len(fs) THEN acc
    ELSE LET len == Truncate(fs[i].size, per)
         IN  IF cur + len > total
             THEN acc
             ELSE GradeLoop(fs, i + 1,
                      Append(acc, [path |-> fs[i].path, size |-> len, marker |-> 0]),
                      cur + len, per, total)

\* the files of a request and the two limits read from the environment
InitPrompt ==
    /\ InitWith({}, FALSE, 0)
    /\ Defaults
    /\ NoHandler
    /\ client /\ envKey /\ defaultModel = PinnedModel
    /\ \E n \in 0..MaxFiles :
          \E sz \in [1..n -> 0..MaxSize] :
              files = [i \in 1..n |-> [path |-> i, size |-> sz[i]]]
    /\ per_file_limit \in 0..MaxPerFile
    /\ total_limit \in 0..MaxTotal
    /\ prepared = <<>>
    /\ builder = "none"

BuildEvaluationPrompt ==
    /\ builder = "none"
    /\ prepared' = EvalLoop(files, 1, <<>>, 0, per_file_limit, total_limit)
    /\ builder' = "evaluation"
    /\ UNCHANGED <<client, envKey, defaultModel, model, cvars, evars, nreq, kvars,
                   hvars, files, per_file_limit, total_limit>>

BuildGradingPrompt ==
    /\ builder = "none"
    /\ prepared' = GradeLoop(files, 1, <<>>, 0, per_file_limit, total_limit)
    /\ builder' = "grading"
    /\ UNCHANGED <<client, envKey, defaultModel, model, cvars, evars, nreq, kvars,
                   hvars, files, per_file_limit, total_limit>>

NextPrompt ==
    \/ BuildEvaluationPrompt
    \/ BuildGradingPrompt

SpecPrompt == InitPrompt /\ [][NextPrompt]_vars

RECURSIVE SumSizes(_)
SumSizes(ps) == IF ps = <<>> THEN 0 ELSE Head(ps).size + SumSizes(Tail(ps))

\* C19: both builders keep every included content within the per-file
\* budget and the sum of the included lengths within the total budget, and
\* include a prefix of the file list: the first file that would exceed the
\* total ends the inclusion, also for later files that would fit.
C19_BudgetsAndPrefix ==
    builder # "none" =>
        /\ \A i \in 1..Len(prepared) : prepared[i].size <= per_file_limit
        /\ SumSizes(prepared) <= total_limit
        /\ Len(prepared) <= Len(files)
        /\ \A i \in 1..Len(prepared) :
              /\ prepared[i].path = files[i].path
              /\ prepared[i].size =
                    (IF files[i].size > per_file_limit THEN per_file_limit
                     ELSE files[i].size)
        /\ Len(prepared) < Len(files) =>
              LET next == files[Len(prepared) + 1].size
              IN  SumSizes(prepared)
                    + (IF next > per_file_limit THEN per_file_limit ELSE next)
                    > total_limit

C19_Witness ==
    /\ builder = "evaluation"
    /\ Len(files) = 3
    /\ files[1].size = 1 /\ files[2].size = 3 /\ files[3].size = 1
    /\ per_file_limit = 2
    /\ total_limit = 2
    /\ Len(prepared) = 1

\* C20: in both builders, each included file longer than the per-file
\* budget carries a marker with the number of omitted characters (length
\* minus budget), and no file that fits carries a marker.
C20_TruncationMarked ==
    builder # "none" =>
        \A i \in 1..Len(prepared) :
            /\ files[i].size > per_file_limit =>
                  prepared[i].marker = files[i].size - per_file_limit
            /\ files[i].size <= per_file_limit => prepared[i].marker = 0

\* C21: every remote attempt made for a consensus evaluation is made with
\* the pinned evaluation model, also when another evaluation on the same
\* service starts or finishes (restoring self.model) while the attempt is
\* still pending.
C21_PinnedForEveryAttempt ==
    \A e \in EvalIds :
        \A c \in EvalCalls(e) :
            \A i \in 1..Len(used[c]) : used[c][i] = PinnedModel

\* the _call_gemini_core coroutines the evaluation has created
Invoked(e) == {c \in DOMAIN cpc : Owner(c) = e /\ cpc[c] # "off"}

\* C22: an evaluation creates exactly three calls, whatever their outcomes
\* (no early exit once two of them agree, no further call after failures),
\* and the vote and the return happen only after each of the three has
\* returned its outcome.
C22_ThreeCallsThenJoin ==
    \A e \in EvalIds :
        /\ epc[e] \in {"off", "idle"} => Invoked(e) = {}
        /\ epc[e] \in {"gather", "done", "raised"} => Cardinality(Invoked(e)) = 3
        /\ (epc[e] = "done" \/ eresult[e] # NoResult) =>
              /\ epc[e] = "done"
              /\ \A c \in Invoked(e) : cpc[c] = "done" /\ Tagged(result[c])

C22_Witness ==
    /\ epc["A"] = "done"
    /\ SuccSlots("A") = {1, 2}
    /\ SlotVote("A", 1) = SlotVote("A", 2)
    /\ calls[<<"A", 3>>] = 4
    /\ IsFailure(result[<<"A", 3>>], "LLM_UNAVAILABLE")
    /\ IsSuccess(eresult["A"])

\* what the three outcomes, taken slot by slot, determine: the first call's
\* failure if no call succeeded, else the response of the first slot, in
\* invocation order, whose vote has the highest count
SlotOutcome(e) ==
    LET succ == {i \in Slots : IsSuccess(result[<<e, i>>])}
        vote == [i \in succ |-> SlotVote(e, i)]
        count == [i \in succ |-> Cardinality({j \in succ : vote[j] = vote[i]})]
        lead == CHOOSE i \in succ :
                    \A j \in succ :
                        /\ count[j] <= count[i]
                        /\ count[j] = count[i] => i <= j
    IN  IF succ = {} THEN result[<<e, 1>>]
        ELSE [success |-> TRUE, response |-> result[<<e, lead>>].response]

\* C23: what an evaluation returns is fixed by the three outcomes taken in
\* invocation order: whatever the order in which the three calls completed,
\* the winner and the returned response are those the slots determine.
C23_InvocationOrderOnly ==
    \A e \in EvalIds :
        epc[e] = "done" =>
            /\ Len(finished[e]) = 3
            /\ eresult[e] = SlotOutcome(e)

C23_Witness ==
    /\ epc["A"] = "done"
    /\ finished["A"] = <<3, 2, 1>>
    /\ SuccSlots("A") = {1, 2, 3}
    /\ SlotVote("A", 1) = 0
    /\ SlotVote("A", 2) = 50
    /\ SlotVote("A", 3) = 100
    /\ calls[<<"A", 1>>] = 2
    /\ eresult["A"].response = result[<<"A", 1>>].response

\* remote calls of c that were started and have neither returned nor raised
InFlight(c) ==
    calls[c] - Len(raised[c]) - (IF returned[c] # NoText THEN 1 ELSE 0)

\* C24: within one request the attempts are strictly sequential: an attempt
\* is started only after all earlier attempts have failed and the backoff
\* sleep after each of them is over; at most one remote call of the request
\* is in flight; and every backoff sleep follows a failed attempt classified
\* retryable and comes before the next attempt.
C24_SequentialAttempts ==
    \A c \in Calls :
        LET n == Len(raised[c])
        IN  /\ InFlight(c) \in {0, 1}
            /\ InFlight(c) = 1 <=> cpc[c] = "inflight"
            /\ cpc[c] \in {"submitted", "inflight"} =>
                  /\ attempt[c] = n
                  /\ Len(sleeps[c]) = n
                  /\ returned[c] = NoText
            /\ cpc[c] = "sleeping" =>
                  /\ n >= 1
                  /\ attempt[c] = n - 1
                  /\ Len(sleeps[c]) = n
                  /\ calls[c] = n
            /\ Len(sleeps[c]) <= n
            /\ \A i \in 1..Len(sleeps[c]) : ClaimRetryable(raised[c][i])
            /\ (cpc[c] = "done" /\ calls[c] > 0) => Len(sleeps[c]) = calls[c] - 1

C24_Witness ==
    /\ cpc[PlainCall] = "inflight"
    /\ Len(raised[PlainCall]) = 2
    /\ sleeps[PlainCall] = <<1, 2>>
    /\ calls[PlainCall] = 3
    /\ attempt[PlainCall] = 2

\* ======================================================================
\* Termination
\* ======================================================================
\* One consensus evaluation that is not cancelled.  The event loop resumes
\* a task that can run, the executor runs a submitted lambda, a remote call
\* returns or raises and a sleep ends: the run does not stop while one of
\* these steps is possible.
InitLive == InitWith({"A"}, FALSE, 0) /\ NoPrompt /\ Defaults /\ NoHandler

NextLive ==
    \/ EvalBegin("A")
    \/ \E c \in EvalCalls("A") : EvalCallStart(c)
    \/ \E c \in EvalCalls("A") : ThreadRun(c)
    \/ \E c \in EvalCalls("A") : RemoteReturns(c, OneText)
    \/ \E c \in EvalCalls("A") : RemoteRaises(c, FewExceptions)
    \/ \E c \in EvalCalls("A") : WakeUp(c)
    \/ EvalFinish("A")

Fairness == WF_vars(NextLive)

SpecLive == InitLive /\ [][NextLive]_vars /\ Fairness

\* the failure dict of the return after the retry loop
IsExceeded(r) ==
    /\ "error" \in DOMAIN r
    /\ r.error.message = "LLM service exceeded maximum retry attempts."

\* how far a call is: attempts count three steps each (submitted, in
\* flight, sleeping), the return is the last step
Rank(c) ==
    CASE cpc[c] \in {"off", "idle"} -> 0
      [] cpc[c] = "submitted" -> 3 * attempt[c] + 1
      [] cpc[c] = "inflight" -> 3 * attempt[c] + 2
      [] cpc[c] = "sleeping" -> 3 * attempt[c] + 3
      [] OTHER -> 3 * MAX_LLM_RETRIES + 3

\* how far the evaluation and its three calls are
Progress ==
    (CASE epc["A"] = "gather" -> 1 [] epc["A"] = "done" -> 2 [] OTHER -> 0)
    + Rank(<<"A", 1>>) + Rank(<<"A", 2>>) + Rank(<<"A", 3>>)

\* the evaluation and its calls have returned
Returned ==
    /\ epc["A"] = "done"
    /\ Tagged(eresult["A"])
    /\ \A c \in EvalCalls("A") : cpc[c] = "done" /\ Tagged(result[c])

\* C25: a call that has started runs to its return, and the evaluation
\* returns once its three calls have, given that every remote call returns
\* or raises and every backoff sleep ends: every step takes the run
\* further, the run can stop only when the evaluation and its calls have
\* returned a success or a failure, and the retry loop is never left
\* through its loop condition (no call returns the "exceeded maximum retry
\* attempts" failure).
C25_RunsToCompletion ==
    /\ [][Progress' > Progress]_vars
    /\ [](Returned \/ ENABLED NextLive)
    /\ [](\A c \in Calls : attempt[c] <= MAX_LLM_RETRIES /\ ~IsExceeded(result[c]))

C25_Witness ==
    /\ Returned
    /\ \A c \in EvalCalls("A") : calls[c] = 4 /\ Len(sleeps[c]) = 3
    /\ IsFailure(eresult["A"], "LLM_UNAVAILABLE")

\* C26: after a failed attempt the status code is the exception's own status
\* field when it has one; only without it is the message scanned, and then
\* the first of 429, 500, 502, 503, 504 that occurs in the message is taken.
\* An exception with the status 400 and "503" in its message keeps the
\* status 400: it is not retried and ends the call with that status.
C26_NativeStatusFirst ==
    \A c \in Calls :
        raised[c] # <<>> =>
            LET exc == raised[c][Len(raised[c])]
                has(code) == \E i \in 1..Len(exc.msg) : exc.msg[i] = code
            IN  /\ exc.status_code # NoStatus => last_status_code[c] = exc.status_code
                /\ exc.status_code = NoStatus =>
                      last_status_code[c] =
                          (IF has("429") THEN 429 ELSE IF has("500") THEN 500
                           ELSE IF has("502") THEN 502 ELSE IF has("503") THEN 503
                           ELSE IF has("504") THEN 504 ELSE NoStatus)
                /\ (exc.status_code = 400 /\ exc.msg = Msg503) =>
                      /\ cpc[c] = "done"
                      /\ IsFailure(result[c], "LLM_UNAVAILABLE")
                      /\ result[c].error.status_code = 400
                      /\ Len(sleeps[c]) = Len(raised[c]) - 1

C26_Witness ==
    /\ cpc[PlainCall] = "done"
    /\ raised[PlainCall] = << [status_code |-> NoStatus, msg |-> MsgMulti],
                              [status_code |-> 400, msg |-> Msg503] >>
    /\ sleeps[PlainCall] = <<1>>
    /\ result[PlainCall].error.status_code = 400

\* C27: a remote call that returns while no schema was given ends the call
\* on that attempt with a success that carries the text as it came (the
\* empty string when the response has no text): nothing is validated, so
\* any text succeeds, and no attempt or sleep follows.
C27_NoSchemaRawText ==
    \A c \in Calls :
        (~schema[c] /\ returned[c] # NoText) =>
            /\ cpc[c] = "done"
            /\ result[c] =
                  [success |-> TRUE,
                   response |-> IF returned[c].kind = "absent" THEN RawEmpty
                                ELSE returned[c]]
            /\ calls[c] = Len(raised[c]) + 1
            /\ Len(sleeps[c]) = Len(raised[c])

C27_Witness ==
    /\ cpc[PlainCall] = "done"
    /\ ~schema[PlainCall]
    /\ Len(raised[PlainCall]) = 1
    /\ returned[PlainCall] = RawAbsent
    /\ result[PlainCall] = [success |-> TRUE, response |-> RawEmpty]

\* ======================================================================
\* The retry settings
\* ======================================================================
\* A service whose two retry fields hold other values than the defaults
\* when the plain caller issues its requests.
MaxRetriesKnob == 4
MaxBackoffBase == 2

InitKnobs ==
    /\ InitWith({}, TRUE, 0)
    /\ NoPrompt
    /\ NoHandler
    /\ client
    /\ envKey
    /\ max_retries \in 0..MaxRetriesKnob
    /\ backoff_base \in 1..MaxBackoffBase

NextKnobs ==
    \/ \E hs \in BOOLEAN : PlainStart(hs)
    \/ ThreadRun(PlainCall)
    \/ RemoteReturns(PlainCall, OneText)
    \/ RemoteRaises(PlainCall, FewExceptions)
    \/ WakeUp(PlainCall)

SpecKnobs == InitKnobs /\ [][NextKnobs]_vars

\* C28: the retry policy follows the two settings of the service: with
\* max_retries = R a call makes at most R + 1 remote attempts, and with
\* backoff_base = B the delay before retry number k (k = 0, 1, 2, ...) is
\* B * 2^k seconds.
C28_FollowsKnobs ==
    \A c \in Calls :
        /\ calls[c] <= max_retries + 1
        /\ \A k \in 1..Len(sleeps[c]) : sleeps[c][k] = backoff_base * 2 ^ (k - 1)

\* C29: if at least one of the three calls succeeded, the evaluation returns
\* a success whose response is the response of one of the successful calls;
\* only successful calls vote, so a single successful call wins whatever the
\* other two failures are; the failure of the first call is returned only
\* when all three calls failed.
C29_FailuresDoNotVote ==
    \A e \in EvalIds :
        epc[e] = "done" =>
            /\ SuccSlots(e) # {} =>
                  /\ IsSuccess(eresult[e])
                  /\ \E i \in SuccSlots(e) :
                        eresult[e].response = result[<<e, i>>].response
            /\ Len(Votes(ValidResponses(Results(e)))) = Cardinality(SuccSlots(e))
            /\ \A i \in Slots :
                  SuccSlots(e) = {i} => eresult[e] = result[<<e, i>>]
            /\ ~eresult[e].success =>
                  /\ SuccSlots(e) = {}
                  /\ eresult[e] = result[<<e, 1>>]

C29_Witness ==
    /\ epc["A"] = "done"
    /\ SuccSlots("A") = {3}
    /\ IsFailure(result[<<"A", 1>>], "LLM_UNAVAILABLE")
    /\ IsFailure(result[<<"A", 2>>], "PARSE_ERROR")
    /\ IsSuccess(eresult["A"])
    /\ eresult["A"].response = result[<<"A", 3>>].response

\* ======================================================================
\* The /github handlers
\* ======================================================================
\* Python's None in a response
None == [none |-> TRUE]

\* what github_service.fetch_repository_files can return: no file, or files
FetchedFiles ==
    { <<>>,
      << [path |-> 1, size |-> 1] >>,
      << [path |-> 1, size |-> 3], [path |-> 2, size |-> 1] >> }

\* texts the remote call returns to a handler's call: one the schema of the
\* call accepts and one it rejects (the verdict is modelled by Validate)
GitTexts == {RawJson("true", NoCredit), RawProse}

\* response.model_dump(): the fields of the parsed object as a dict
Dump(resp) == [is_correct |-> resp.is_correct, partial_credit |-> resp.partial_credit]

\* GitEvaluator: `if not files or not description: return ...`
MissingInput == [success |-> FALSE, error |-> "Missing input"]

\* GitEvaluator.evaluate_repository / grade_repository after the LLM call
EvaluatorResult(res) ==
    IF ~res.success
    THEN [success |-> FALSE, error |-> res.error.message, is_llm_fail |-> TRUE]
    ELSE [success |-> TRUE, result |-> Dump(res.response)]

TopLevelSuccessNested(ev) == ev.success

\* success=True in the response that carries the evaluator's dict
TopLevelSuccess(ev) == TRUE

\* the handler's response around the evaluator's dict
Reported(ev) == [success |-> TopLevelSuccess(ev), result |-> ev, error |-> "None"]

NoFilesResponse ==
    [success |-> FALSE, result |-> None,
     error |-> "No files found in repository or unable to access repository"]

\* the except clause of the handler
ErrorResponse(kind) ==
    [success |-> FALSE, result |-> None,
     error |-> IF kind = "evaluate" THEN "Error evaluating repository"
               ELSE "Error grading repository"]

\* everything a step of the handler outside _call_gemini_core leaves alone
CoreUnchanged ==
    UNCHANGED <<client, envKey, defaultModel, model, cvars, evars, nreq, kvars>>

\* A request arrives: the handler awaits github_service.fetch_repository_files.
HandlerCall(kind, desc) ==
    /\ hpc = "idle"
    /\ hpc' = "fetching"
    /\ hkind' = kind
    /\ description' = desc
    /\ CoreUnchanged
    /\ UNCHANGED <<pvars, fetched, evaluation, response>>

\* The fetch raised: the handler's except clause answers.
FetchRaises ==
    /\ hpc = "fetching"
    /\ fetched' = "raised"
    /\ response' = ErrorResponse(hkind)
    /\ hpc' = "done"
    /\ CoreUnchanged
    /\ UNCHANGED <<pvars, hkind, description, evaluation>>

\* The fetch returned: `if not files`, then the evaluator up to its await of
\* the LLM call (its guard, the prompt builder, the entry of the call); where
\* the evaluator returns without awaiting, the handler's response follows.
FetchReturns(fs) ==
    /\ hpc = "fetching"
    /\ fetched' = IF fs = <<>> THEN "empty" ELSE "files"
    /\ UNCHANGED <<hkind, description>>
    /\ IF fs = <<>>
       THEN /\ response' = NoFilesResponse
            /\ hpc' = "done"
            /\ CoreUnchanged
            /\ UNCHANGED <<pvars, evaluation>>
       ELSE IF hkind = "grade" /\ ~description
       THEN /\ evaluation' = MissingInput
            /\ response' = Reported(MissingInput)
            /\ hpc' = "done"
            /\ CoreUnchanged
            /\ UNCHANGED pvars
       ELSE /\ files' = fs
            /\ prepared' =
                  IF hkind = "evaluate"
                  THEN EvalLoop(fs, 1, <<>>, 0, per_file_limit, total_limit)
                  ELSE GradeLoop(fs, 1, <<>>, 0, per_file_limit, total_limit)
            /\ builder' = IF hkind = "evaluate" THEN "evaluation" ELSE "grading"
            /\ UNCHANGED <<per_file_limit, total_limit, nreq>>
            /\ Enter(PlainCall, TRUE)
            /\ IF Proceeds(GetClient(client, envKey))
               THEN /\ hpc' = "evaluating"
                    /\ UNCHANGED <<evaluation, response>>
               ELSE /\ evaluation' = EvaluatorResult(ConfigError)
                    /\ response' = Reported(EvaluatorResult(ConfigError))
                    /\ hpc' = "done"

\* The LLM call returned its dict: the evaluator maps it and the handler
\* returns its response.
HandlerFinish ==
    /\ hpc = "evaluating"
    /\ cpc[PlainCall] = "done"
    /\ evaluation' = EvaluatorResult(result[PlainCall])
    /\ response' = Reported(EvaluatorResult(result[PlainCall]))
    /\ hpc' = "done"
    /\ CoreUnchanged
    /\ UNCHANGED <<pvars, hkind, description, fetched>>

InitGithub ==
    /\ InitWith({}, TRUE, 0)
    /\ Defaults
    /\ files = <<>>
    /\ per_file_limit = MaxPerFile
    /\ total_limit = MaxTotal
    /\ prepared = <<>>
    /\ builder = "none"
    /\ hpc = "idle"
    /\ hkind = "none"
    /\ description = FALSE
    /\ fetched = "pending"
    /\ evaluation = NoResult
    /\ response = NoResult

NextGithub ==
    \/ \E kind \in {"evaluate", "grade"}, desc \in BOOLEAN : HandlerCall(kind, desc)
    \/ FetchRaises
    \/ \E fs \in FetchedFiles : FetchReturns(fs)
    \/ ThreadRun(PlainCall)
    \/ RemoteReturns(PlainCall, GitTexts)
    \/ RemoteRaises(PlainCall, FewExceptions)
    \/ WakeUp(PlainCall)
    \/ HandlerFinish

SpecGithub == InitGithub /\ [][NextGithub]_vars

\* C30: when the files were fetched and no exception reached the handler's
\* except clause, the response has success = true and no error, and carries
\* the evaluator's dict as its result; this includes the case where the LLM
\* call ended in a failure: then the failure shows only in the nested result
\* (success = false, is_llm_fail, the failure's message).
C30_TopLevelSuccess ==
    hpc = "done" =>
        /\ fetched = "files" =>
              /\ response.success
              /\ response.error = "None"
              /\ response.result = evaluation
        /\ (fetched = "files" /\ cpc[PlainCall] = "done" /\ ~result[PlainCall].success) =>
              /\ response.success
              /\ ~response.result.success
              /\ response.result.is_llm_fail
              /\ response.result.error = result[PlainCall].error.message

C30_Witness ==
    /\ hpc = "done"
    /\ hkind = "grade"
    /\ fetched = "files"
    /\ Len(raised[PlainCall]) = 1
    /\ IsFailure(result[PlainCall], "PARSE_ERROR")
    /\ response.success
    /\ ~response.result.success
    /\ response.result.is_llm_fail

====
